---------------------------- MODULE Spec2Model ----------------------------
(***************************************************************************)
(* A model of src/src/graph.rs: the operation set with its two evaluators  *)
(* (raw residues, Montgomery-form field elements), the reference evaluator *)
(* and the optimisation passes over the node sequence.                     *)
(*                                                                         *)
(* TLC has 32-bit integers, so the 256-bit word and the 254-bit modulus of *)
(* the program are scaled down: a WordBits-bit word made of limbs of       *)
(* LimbBits bits and a prime modulus M with 2^(WordBits-2) < M <           *)
(* 2^(WordBits-1). The relations the code depends on are kept: M is prime, *)
(* some words are no residues, some residues are shift amounts beyond the  *)
(* word width, some residues have bits above the least-significant limb,   *)
(* and R = 2^WordBits mod M is not 1, so that the Montgomery encoding is   *)
(* not the identity.                                                       *)
(*                                                                         *)
(* Node indices and output indices are 0-based as in the source; the       *)
(* sequences holding them are 1-based, so position i is read with At.      *)
(***************************************************************************)
EXTENDS Integers, Sequences, FiniteSets, TLC

VARIABLES
    debug,        \* the build: TRUE when debug assertions are compiled in
    call,         \* the arguments of a call of Operation::eval / eval_fr
    ret_raw,      \* what Operation::eval returned for call
    ret_fr,       \* what Operation::eval_fr returned for call
    called,       \* which of the two evaluators have been called
    nodes,        \* the graph: the node sequence
    outputs,      \* the graph: the outputs list
    pre_nodes,    \* the node sequence before the last pass that ran
    pre_outputs,  \* the outputs list before the last pass that ran
    orig_nodes,   \* the node sequence the caller built
    orig_outputs, \* the outputs list the caller built
    pc,           \* the position in the running call
    last,         \* the passes that ran, the latest last
    values,       \* the value vector of the last value_numbering's random evaluation
    sound,        \* no random evaluation so far merged or promoted by chance
    evaluated,    \* evaluate has been called
    inputs,       \* the input vector given to evaluate
    result        \* what evaluate returned

vars == <<debug, call, ret_raw, ret_fr, called, nodes, outputs, pre_nodes,
          pre_outputs, orig_nodes, orig_outputs, pc, last, values,
          sound, evaluated, inputs, result>>

---------------------------------------------------------------------------
(* The scaled field and word.                                              *)

\* crate::field::M, the prime modulus (scaled).
M == 7

\* The width of U256 in bits (scaled); also the literal 256 of the shifts'
\* debug assertions, which is U256::BITS.
WordBits == 4

\* The width of one limb of U256 in bits (scaled).
LimbBits == 2

\* The length of the byte arrays the three *_Fr helpers declare.
ShlBytes == 64

ShrBytes == 64

BandBytes == 64

\* The length u8_to_u64_array asserts.
U64ArrayBytes == 32

Word == 2 ^ WordBits

Residues == 0 .. (M - 1)


\* The Montgomery radix 2^WordBits mod M and its inverse mod M.
R == Word % M

RInv == CHOOSE x \in Residues : (x * R) % M = 1

---------------------------------------------------------------------------
(* Results: a returned value, or a panic that aborts the call.             *)

Ok(v) == [ok |-> TRUE, val |-> v]

Panic == [ok |-> FALSE, val |-> 0]

PanicVec == [ok |-> FALSE, val |-> <<>>]

NotCalled == [ok |-> FALSE, val |-> -1]

---------------------------------------------------------------------------
(* Operation and Node.                                                     *)

Operation ==
    {"Mul", "MMul", "Add", "Sub", "Eq", "Neq", "Lt", "Gt", "Leq", "Geq",
     "Lor", "Shl", "Shr", "Band"}

Input(i) == [kind |-> "Input", op |-> "-", a |-> i, b |-> 0]

Constant(c) == [kind |-> "Constant", op |-> "-", a |-> c, b |-> 0]

MontConstant(c) == [kind |-> "MontConstant", op |-> "-", a |-> c, b |-> 0]

Op(o, x, y) == [kind |-> "Op", op |-> o, a |-> x, b |-> y]

\* The element at 0-based position i.
At(s, i) == s[i + 1]

\* U256::from(bool)
FromBool(c) == IF c THEN 1 ELSE 0

---------------------------------------------------------------------------
(* ruint's U256 operations used by the source.                             *)

add_mod(a, b, m) == ((a % m) + (b % m)) % m

mul_mod(a, b, m) == (a * b) % m

\* The - operator of U256 wraps.
wrapping_sub(a, b) == (a - b + Word) % Word

\* a.shl(n) and a.shr(n): a shift by the word width or more gives zero.
shl(a, n) == IF n >= WordBits THEN 0 ELSE (a * (2 ^ n)) % Word

shr(a, n) == IF n >= WordBits THEN 0 ELSE a \div (2 ^ n)

RECURSIVE BitAndN(_, _, _)
BitAndN(a, b, n) ==
    IF n = 0 THEN 0
    ELSE (IF a % 2 = 1 /\ b % 2 = 1 THEN 1 ELSE 0)
         + 2 * BitAndN(a \div 2, b \div 2, n - 1)

bitand(a, b) == BitAndN(a, b, WordBits)

\* b.as_limbs()[0]
ls_limb(b) == b % (2 ^ LimbBits)

compute_shl_uint(a, b) ==
    IF debug /\ ~(b < WordBits) THEN Panic ELSE Ok(shl(a, ls_limb(b)))

compute_shr_uint(a, b) ==
    IF debug /\ ~(b < WordBits) THEN Panic ELSE Ok(shr(a, ls_limb(b)))

---------------------------------------------------------------------------
(* Operation::eval on raw words.                                           *)

eval(o, a, b) ==
    CASE o = "Add" -> Ok(add_mod(a, b, M))
      [] o = "Sub" -> Ok(add_mod(a, wrapping_sub(M, b), M))
      [] o = "Mul" -> Ok(mul_mod(a, b, M))
      [] o = "Eq"  -> Ok(FromBool(a = b))
      [] o = "Neq" -> Ok(FromBool(a # b))
      [] o = "Lt"  -> Ok(FromBool(a < b))
      [] o = "Gt"  -> Ok(FromBool(a > b))
      [] o = "Leq" -> Ok(FromBool(a <= b))
      [] o = "Geq" -> Ok(FromBool(a >= b))
      [] o = "Lor" -> Ok(FromBool(a # 0 \/ b # 0))
      [] o = "Shl" -> compute_shl_uint(a, b)
      [] o = "Shr" -> compute_shr_uint(a, b)
      [] o = "Band" -> Ok(bitand(a, b))
      [] OTHER -> Panic

---------------------------------------------------------------------------
(* ark_ff's Fr: a field element is held as its Montgomery representative   *)
(* x * R mod M.                                                            *)

\* Fr::new(c): the Montgomery encoding of the word c.
Fr_new(c) == (c * R) % M

\* into_bigint, and the conversion of Fr into U256: the canonical residue.
into_bigint(f) == (f * RInv) % M

\* Fr::from(BigInt): from_bigint(..).unwrap(), which panics on a word that
\* is no residue.
Fr_from(x) == IF x < M THEN Ok(Fr_new(x)) ELSE Panic

\* bool.into()
Fr_bool(c) == Fr_new(FromBool(c))

Fr_add(a, b) == (a + b) % M

Fr_sub(a, b) == (a - b + M) % M

\* Montgomery multiplication.
Fr_mul(a, b) == (a * b * RInv) % M

\* Ord for Fr compares the canonical residues.
Fr_lt(a, b) == into_bigint(a) < into_bigint(b)

\* result.to_le_bytes() into an array of the declared length.
to_le_bytes(x, len) == [len |-> len, val |-> x]

u8_to_u64_array(bytes) ==
    IF bytes.len # U64ArrayBytes THEN Panic ELSE Ok(bytes.val)

\* The tail the three helpers share: bytes, limbs, Fr::from.
FromBytes(x, len) ==
    LET limbs == u8_to_u64_array(to_le_bytes(x, len))
    IN  IF limbs.ok THEN Fr_from(limbs.val) ELSE Panic

compute_shl_Fr(a, b) ==
    LET r == compute_shl_uint(into_bigint(a), into_bigint(b))
    IN  IF r.ok THEN FromBytes(r.val, ShlBytes) ELSE Panic

compute_shr_Fr(a, b) ==
    LET r == compute_shr_uint(into_bigint(a), into_bigint(b))
    IN  IF r.ok THEN FromBytes(r.val, ShrBytes) ELSE Panic

compute_bitand_Fr(a, b) ==
    FromBytes(bitand(into_bigint(a), into_bigint(b)), BandBytes)

(* Operation::eval_fr on Montgomery-form field elements.                   *)
eval_fr(o, a, b) ==
    CASE o = "Add" -> Ok(Fr_add(a, b))
      [] o = "Sub" -> Ok(Fr_sub(a, b))
      [] o = "Mul" -> Ok(Fr_mul(a, b))
      [] o = "Eq"  -> Ok(Fr_bool(a = b))
      [] o = "Neq" -> Ok(Fr_bool(a # b))
      [] o = "Lt"  -> Ok(Fr_bool(Fr_lt(a, b)))
      [] o = "Gt"  -> Ok(Fr_bool(Fr_lt(b, a)))
      [] o = "Leq" -> Ok(Fr_bool(~Fr_lt(b, a)))
      [] o = "Geq" -> Ok(Fr_bool(~Fr_lt(a, b)))
      [] o = "Lor" -> Ok(Fr_bool(a # 0 \/ b # 0))
      [] o = "Shl" -> compute_shl_Fr(a, b)
      [] o = "Shr" -> compute_shr_Fr(a, b)
      [] o = "Band" -> compute_bitand_Fr(a, b)
      [] OTHER -> Panic

---------------------------------------------------------------------------
(* The graph passes. A pass returns the graph it leaves behind and whether *)
(* it completed; a pass that panics leaves what it had written so far.     *)

Indices(ns) == 0 .. (Len(ns) - 1)

\* assert_valid: TRUE when no assertion fails.
assert_valid(ns) ==
    \A i \in Indices(ns) :
        At(ns, i).kind = "Op" => At(ns, i).a < i /\ At(ns, i).b < i

Done(ns, outs) == [ok |-> TRUE, nodes |-> ns, outputs |-> outs]

Aborted(ns, outs) == [ok |-> FALSE, nodes |-> ns, outputs |-> outs]

(* evaluate: the forward pass over the nodes, then the outputs.            *)
\* A slip: an Input outside the input vector read as zero.
EvalNode_default(nd, ins, vals) ==
    CASE nd.kind = "Constant" -> Ok(Fr_new(nd.a))
      [] nd.kind = "MontConstant" -> Ok(nd.a)
      [] nd.kind = "Input" ->
            IF nd.a < Len(ins) THEN Ok(Fr_new(At(ins, nd.a))) ELSE Ok(Fr_new(0))
      [] nd.kind = "Op" ->
            IF nd.a < Len(vals) /\ nd.b < Len(vals)
            THEN eval_fr(nd.op, At(vals, nd.a), At(vals, nd.b))
            ELSE Panic

EvalNode(nd, ins, vals) ==
    CASE nd.kind = "Constant" -> Ok(Fr_new(nd.a))
      [] nd.kind = "MontConstant" -> Ok(nd.a)
      [] nd.kind = "Input" ->
            IF nd.a < Len(ins) THEN Ok(Fr_new(At(ins, nd.a))) ELSE Panic
      [] nd.kind = "Op" ->
            IF nd.a < Len(vals) /\ nd.b < Len(vals)
            THEN eval_fr(nd.op, At(vals, nd.a), At(vals, nd.b))
            ELSE Panic

EvalValues(ns, ins) ==
    LET F[k \in 0 .. Len(ns)] ==
            IF k = 0 THEN Ok(<<>>)
            ELSE IF ~F[k - 1].ok THEN PanicVec
            ELSE LET v == EvalNode(ns[k], ins, F[k - 1].val)
                 IN  IF v.ok THEN Ok(Append(F[k - 1].val, v.val)) ELSE PanicVec
    IN  F[Len(ns)]

evaluate(ns, ins, outs) ==
    LET vs == EvalValues(ns, ins)
    IN  IF ~vs.ok THEN PanicVec
        ELSE IF \E k \in 1 .. Len(outs) : outs[k] >= Len(ns) THEN PanicVec
        ELSE Ok([k \in 1 .. Len(outs) |-> into_bigint(At(vs.val, outs[k]))])

(* propagate: fold in place, in increasing index order.                    *)
\* A slip: Leq of a node with itself folded like Lt.
FoldEqual_leq(o) ==
    CASE o \in {"Eq", "Geq"} -> Ok(Constant(FromBool(TRUE)))
      [] o \in {"Neq", "Lt", "Gt", "Leq"} -> Ok(Constant(FromBool(FALSE)))
      [] OTHER -> Panic

FoldEqual(o) ==
    CASE o \in {"Eq", "Leq", "Geq"} -> Ok(Constant(FromBool(TRUE)))
      [] o \in {"Neq", "Lt", "Gt"} -> Ok(Constant(FromBool(FALSE)))
      [] OTHER -> Panic

PropagateNode(ns, i) ==
    LET nd == At(ns, i)
    IN  IF nd.kind # "Op" THEN Ok(nd)
        ELSE IF At(ns, nd.a).kind = "Constant" /\ At(ns, nd.b).kind = "Constant"
        THEN LET r == eval(nd.op, At(ns, nd.a).a, At(ns, nd.b).a)
             IN  IF r.ok THEN Ok(Constant(r.val)) ELSE Panic
        ELSE IF nd.a = nd.b /\ FoldEqual(nd.op).ok THEN FoldEqual(nd.op)
        ELSE Ok(nd)

\* A slip: the nodes folded from the last to the first.
RECURSIVE PropagateFrom_reverse(_, _)
PropagateFrom_reverse(ns, i) ==
    IF i >= Len(ns) THEN [ok |-> TRUE, nodes |-> ns]
    ELSE LET j == Len(ns) - 1 - i
             r == PropagateNode(ns, j)
         IN  IF ~r.ok THEN [ok |-> FALSE, nodes |-> ns]
             ELSE PropagateFrom_reverse([ns EXCEPT ![j + 1] = r.val], i + 1)

RECURSIVE PropagateFrom(_, _)
PropagateFrom(ns, i) ==
    IF i >= Len(ns) THEN [ok |-> TRUE, nodes |-> ns]
    ELSE LET r == PropagateNode(ns, i)
         IN  IF ~r.ok THEN [ok |-> FALSE, nodes |-> ns]
             ELSE PropagateFrom([ns EXCEPT ![i + 1] = r.val], i + 1)

propagate(ns, outs) ==
    IF ~assert_valid(ns) THEN Aborted(ns, outs)
    ELSE LET r == PropagateFrom(ns, 0)
         IN  [ok |-> r.ok, nodes |-> r.nodes, outputs |-> outs]

(* tree_shake: mark from the outputs, scan backwards, retain, renumber.    *)
\* A slip: only the first operand of a used Op is marked.
RECURSIVE MarkFrom_first(_, _, _)
MarkFrom_first(ns, used, i) ==
    IF i < 0 THEN used
    ELSE IF i \in used /\ At(ns, i).kind = "Op"
         THEN MarkFrom_first(ns, used \cup {At(ns, i).a}, i - 1)
         ELSE MarkFrom_first(ns, used, i - 1)

RECURSIVE MarkFrom(_, _, _)
MarkFrom(ns, used, i) ==
    IF i < 0 THEN used
    ELSE IF i \in used /\ At(ns, i).kind = "Op"
         THEN MarkFrom(ns, used \cup {At(ns, i).a, At(ns, i).b}, i - 1)
         ELSE MarkFrom(ns, used, i - 1)

\* A slip: the references are not renumbered.
Renumber_stale(used, i) == i

\* renumber[i]: the number of used nodes before i.
Renumber(used, i) == Cardinality({j \in used : j < i})

RECURSIVE Retain(_, _, _)
Retain(ns, used, i) ==
    IF i >= Len(ns) THEN <<>>
    ELSE IF i \in used THEN <<At(ns, i)>> \o Retain(ns, used, i + 1)
    ELSE Retain(ns, used, i + 1)

\* A slip: only the first operand is renumbered.
RenumberNode_first(nd, used) ==
    IF nd.kind = "Op" THEN Op(nd.op, Renumber(used, nd.a), nd.b) ELSE nd

RenumberNode(nd, used) ==
    IF nd.kind = "Op"
    THEN Op(nd.op, Renumber(used, nd.a), Renumber(used, nd.b))
    ELSE nd

tree_shake(ns, outs) ==
    IF ~assert_valid(ns) THEN Aborted(ns, outs)
    ELSE IF \E k \in 1 .. Len(outs) : outs[k] >= Len(ns) THEN Aborted(ns, outs)
    ELSE LET used == MarkFrom(ns, {outs[k] : k \in 1 .. Len(outs)}, Len(ns) - 1)
             kept == Retain(ns, used, 0)
         IN  Done([p \in 1 .. Len(kept) |-> RenumberNode(kept[p], used)],
                  [k \in 1 .. Len(outs) |-> Renumber(used, outs[k])])

(* random_eval. d holds, per node, the value rng.gen() gives if that node  *)
(* is the first to ask for its input or for its (op, value, value) triple. *)
Algebraic == {"Add", "Sub", "Mul"}

RandomNode(ns, k, vals, d) ==
    LET nd == ns[k]
        sameInput == {j \in 1 .. (k - 1) :
                        ns[j].kind = "Input" /\ ns[j].a = nd.a}
        sameKey == {j \in 1 .. (k - 1) :
                        /\ ns[j].kind = "Op"
                        /\ ns[j].op \notin Algebraic
                        /\ ns[j].op = nd.op
                        /\ At(vals, ns[j].a) = At(vals, nd.a)
                        /\ At(vals, ns[j].b) = At(vals, nd.b)}
    IN  CASE nd.kind = "Constant" -> Ok(nd.a)
          [] nd.kind = "MontConstant" -> Panic
          [] nd.kind = "Op" /\ nd.op \in Algebraic ->
                eval(nd.op, At(vals, nd.a), At(vals, nd.b))
          [] nd.kind = "Input" ->
                IF sameInput # {} THEN Ok(vals[CHOOSE j \in sameInput : TRUE])
                ELSE Ok(d[k] % M)
          [] OTHER ->
                IF sameKey # {} THEN Ok(vals[CHOOSE j \in sameKey : TRUE])
                ELSE Ok(d[k] % M)

random_eval(ns, d) ==
    LET F[k \in 0 .. Len(ns)] ==
            IF k = 0 THEN Ok(<<>>)
            ELSE IF ~F[k - 1].ok THEN PanicVec
            ELSE LET v == RandomNode(ns, k, F[k - 1].val, d)
                 IN  IF v.ok THEN Ok(Append(F[k - 1].val, v.val)) ELSE PanicVec
    IN  F[Len(ns)]

(* value_numbering, given the value vector of its random evaluation.       *)
\* A slip: the last index holding the value is picked.
LastWith(vals, x) ==
    CHOOSE j \in Indices(vals) :
        /\ At(vals, j) = At(vals, x)
        /\ \A l \in Indices(vals) : At(vals, l) = At(vals, x) => l <= j

\* value_map[&value][0]: the first index holding the value of index x.
FirstWith(vals, x) ==
    CHOOSE j \in Indices(vals) :
        /\ At(vals, j) = At(vals, x)
        /\ \A l \in Indices(vals) : At(vals, l) = At(vals, x) => j <= l

value_numbering_with(ns, outs, vals) ==
    LET renumbered ==
            [p \in 1 .. Len(ns) |->
                IF ns[p].kind = "Op"
                THEN Op(ns[p].op, FirstWith(vals, ns[p].a), FirstWith(vals, ns[p].b))
                ELSE ns[p]]
        \* The outputs are rewritten in order, up to the first one out of range.
        reached(k) == \A l \in 1 .. k : outs[l] < Len(ns)
        rewritten ==
            [k \in 1 .. Len(outs) |->
                IF reached(k) THEN FirstWith(vals, outs[k]) ELSE outs[k]]
    IN  IF reached(Len(outs)) THEN Done(renumbered, rewritten)
        ELSE Aborted(renumbered, rewritten)

value_numbering(ns, outs, d) ==
    IF ~assert_valid(ns) THEN Aborted(ns, outs)
    ELSE LET vs == random_eval(ns, d)
         IN  IF ~vs.ok THEN Aborted(ns, outs)
             ELSE value_numbering_with(ns, outs, vs.val)

(* constants, given the two draw vectors of its random evaluations.        *)
constants_with(ns, va, vb) ==
    [p \in 1 .. Len(ns) |->
        IF ns[p].kind = "Constant" THEN ns[p]
        ELSE IF va[p] = vb[p] THEN Constant(va[p])
        ELSE ns[p]]

constants(ns, outs, da, db) ==
    IF ~assert_valid(ns) THEN Aborted(ns, outs)
    ELSE LET va == random_eval(ns, da)
             vb == random_eval(ns, db)
         IN  IF ~va.ok \/ ~vb.ok THEN Aborted(ns, outs)
             ELSE Done(constants_with(ns, va.val, vb.val), outs)

\* A slip: the constant relabelled without being encoded.
montgomery_form_raw(ns, outs) ==
    Done([p \in 1 .. Len(ns) |->
            IF ns[p].kind = "Constant" THEN MontConstant(ns[p].a) ELSE ns[p]],
         outs)

(* montgomery_form                                                         *)
montgomery_form(ns, outs) ==
    Done([p \in 1 .. Len(ns) |->
            IF ns[p].kind = "Constant" THEN MontConstant(Fr_new(ns[p].a))
            ELSE ns[p]],
         outs)

---------------------------------------------------------------------------
(* The callers: what they may pass.                                        *)

NoGraph ==
    /\ nodes = <<>> /\ outputs = <<>>
    /\ pre_nodes = <<>> /\ pre_outputs = <<>>
    /\ orig_nodes = <<>> /\ orig_outputs = <<>>
    /\ last = <<>> /\ values = <<>>
    /\ sound = TRUE /\ evaluated = FALSE /\ inputs = <<>> /\ result = PanicVec

NoCall ==
    /\ call = [op |-> "Add", a |-> 0, b |-> 0]
    /\ ret_raw = NotCalled /\ ret_fr = NotCalled /\ called = {}

graph_vars ==
    <<nodes, outputs, pre_nodes, pre_outputs, orig_nodes, orig_outputs, last,
      values, sound, evaluated, inputs, result>>

call_vars == <<call, ret_raw, ret_fr, called>>

---------------------------------------------------------------------------
(* SpecEval: one call of each evaluator of the operation set on the same   *)
(* logical operands, the raw one on the residues a and b, the Montgomery   *)
(* one on their encodings.                                                 *)

InitEval ==
    /\ debug \in BOOLEAN
    /\ pc = "ops"
    /\ call \in [op : Operation, a : Residues, b : Residues]
    /\ ret_raw = NotCalled /\ ret_fr = NotCalled /\ called = {}
    /\ NoGraph

CallEval ==
    /\ pc = "ops" /\ "eval" \notin called
    /\ ret_raw' = eval(call.op, call.a, call.b)
    /\ called' = called \cup {"eval"}
    /\ UNCHANGED <<debug, pc, call, ret_fr, graph_vars>>

CallEvalFr ==
    /\ pc = "ops" /\ "eval_fr" \notin called
    /\ ret_fr' = eval_fr(call.op, Fr_new(call.a), Fr_new(call.b))
    /\ called' = called \cup {"eval_fr"}
    /\ UNCHANGED <<debug, pc, call, ret_raw, graph_vars>>

NextEval == CallEval \/ CallEvalFr

SpecEval == InitEval /\ [][NextEval]_vars

Supported == Operation \ {"MMul"}

Shifts == {"Shl", "Shr"}

BothCalled == called = {"eval", "eval_fr"}

\* C3: for every supported operation and residues a, b (shift amounts below
\* the word width), eval_fr on the Montgomery encodings of a and b returns
\* the Montgomery encoding of eval(a, b), and eval(a, b) is a residue.
C3_EvaluatorsAgree ==
    (/\ BothCalled
     /\ call.op \in Supported
     /\ (call.op \in Shifts => call.b < WordBits))
    => /\ ret_raw.ok /\ ret_fr.ok
       /\ ret_raw.val \in Residues
       /\ ret_fr.val = Fr_new(ret_raw.val)

\* C8: Shl and Shr by an amount >= the word width are rejected by both
\* evaluators, and amounts 0 and width-1 are accepted by both and agree.
C8_ShiftBoundary ==
    (BothCalled /\ call.op \in Shifts)
    => /\ (call.b >= WordBits => ~ret_raw.ok /\ ~ret_fr.ok)
       /\ (call.b \in {0, WordBits - 1} =>
              /\ ret_raw.ok /\ ret_fr.ok
              /\ into_bigint(ret_fr.val) = ret_raw.val % M)

---------------------------------------------------------------------------
(* The graphs a caller may build, up to MaxNodes nodes and MaxOutputs      *)
(* outputs. NodesAt(i, ...) are the nodes position i may hold, every Op    *)
(* referring backwards.                                                    *)

MaxNodes == 3

MaxOutputs == 1

\* rng.gen() is drawn from 0 .. MaxRand.
MaxRand == 2

\* The input values given to evaluate are drawn from 0 .. MaxInput.
MaxInput == 2

NodesAt(i, leaves, ops) ==
    leaves \cup {Op(o, x, y) : o \in ops, x, y \in 0 .. (i - 1)}

RECURSIVE GraphsOfLen(_, _, _)
GraphsOfLen(n, leaves, ops) ==
    IF n = 0 THEN {<<>>}
    ELSE {Append(g, nd) : g \in GraphsOfLen(n - 1, leaves, ops),
                          nd \in NodesAt(n - 1, leaves, ops)}

Graphs(maxn, leaves, ops) ==
    UNION {GraphsOfLen(n, leaves, ops) : n \in 1 .. maxn}

OutputLists(n, maxk) == UNION {[1 .. k -> 0 .. (n - 1)] : k \in 1 .. maxk}

\* A graph with one operand of one Op replaced by a self reference, a
\* forward reference or an index past the end.
Malformed(g) ==
    UNION {{[g EXCEPT ![k].a = x] : x \in (k - 1) .. Len(g)}
           \cup {[g EXCEPT ![k].b = x] : x \in (k - 1) .. Len(g)} :
           k \in {l \in 1 .. Len(g) : g[l].kind = "Op"}}

\* The nodes of ns that draw in a random evaluation, and the draws of one.
DrawPositions(ns) ==
    {k \in 1 .. Len(ns) :
        \/ ns[k].kind = "Input"
        \/ ns[k].kind = "Op" /\ ns[k].op \notin Algebraic}

Draws(ns) == [DrawPositions(ns) -> 0 .. MaxRand]

\* The input vectors: two inputs.
InputVecs == [1 .. 2 -> 0 .. MaxInput]

\* The last two passes, the latest last.
Ran(name) == IF last = <<>> THEN <<name>> ELSE <<last[Len(last)], name>>

Latest == IF last = <<>> THEN "none" ELSE last[Len(last)]

\* The graph after a pass that returned r; on a panic the call is aborted.
Ran_pass(name, r, vals, next, snd) ==
    /\ pre_nodes' = nodes /\ pre_outputs' = outputs
    /\ nodes' = r.nodes /\ outputs' = r.outputs
    /\ last' = Ran(name)
    /\ values' = vals
    /\ pc' = IF r.ok THEN next ELSE "aborted"
    /\ sound' = snd
    /\ UNCHANGED <<debug, orig_nodes, orig_outputs, evaluated, inputs, result,
                   call_vars>>

\* The same, for a caller that keeps no record of the passes it ran.
Ran_unrecorded(r) ==
    /\ nodes' = r.nodes /\ outputs' = r.outputs
    /\ pc' = IF r.ok THEN pc ELSE "aborted"
    /\ UNCHANGED <<debug, pre_nodes, pre_outputs, last, values, sound,
                   orig_nodes, orig_outputs, evaluated, inputs, result,
                   call_vars>>

\* A graph of gs with up to maxk outputs, built under one of builds; a
\* caller that keeps a record holds on to the graph it built.
InitGraph(gs, maxk, builds, start, record) ==
    /\ debug \in builds
    /\ pc = start
    /\ nodes \in gs
    /\ outputs \in OutputLists(Len(nodes), maxk)
    /\ pre_nodes = (IF record THEN nodes ELSE <<>>)
    /\ pre_outputs = (IF record THEN outputs ELSE <<>>)
    /\ orig_nodes = (IF record THEN nodes ELSE <<>>)
    /\ orig_outputs = (IF record THEN outputs ELSE <<>>)
    /\ last = <<>> /\ values = <<>> /\ sound = TRUE
    /\ evaluated = FALSE /\ inputs = <<>> /\ result = PanicVec
    /\ NoCall

---------------------------------------------------------------------------
(* The passes, run on the graph as it stands.                              *)

PassTreeShake ==
    /\ pc = "idle"
    /\ Ran_pass("tree_shake", tree_shake(nodes, outputs), <<>>, "idle", sound)

PassPropagate ==
    /\ pc = "idle"
    /\ Ran_pass("propagate", propagate(nodes, outputs), <<>>, "idle", sound)

PassValueNumbering ==
    /\ pc = "idle"
    /\ \E d \in Draws(nodes) :
          LET vs == random_eval(nodes, d)
          IN  Ran_pass("value_numbering", value_numbering(nodes, outputs, d),
                       IF assert_valid(nodes) /\ vs.ok THEN vs.val ELSE <<>>,
                       "idle", sound)

---------------------------------------------------------------------------
(* SpecPass: a well-formed graph, and the passes run on it one after the   *)
(* other in any order and any number of times; the schedule of optimize is *)
(* one of the orders. No node is a shift, so the build makes no            *)
(* difference.                                                             *)

PassLeaves ==
    {Input(0), Input(1), Constant(1), MontConstant(Fr_new(1))}

PassOps == {"Add", "Eq", "MMul"}

InitPass ==
    InitGraph(Graphs(MaxNodes, PassLeaves, PassOps), MaxOutputs, {FALSE},
              "idle", FALSE)

AnyTreeShake ==
    /\ pc = "idle"
    /\ Ran_unrecorded(tree_shake(nodes, outputs))

AnyPropagate ==
    /\ pc = "idle"
    /\ Ran_unrecorded(propagate(nodes, outputs))

AnyValueNumbering ==
    /\ pc = "idle"
    /\ \E d \in Draws(nodes) :
          Ran_unrecorded(value_numbering(nodes, outputs, d))

AnyConstants ==
    /\ pc = "idle"
    /\ \E da, db \in Draws(nodes) :
          Ran_unrecorded(constants(nodes, outputs, da, db))

AnyMontgomeryForm ==
    /\ pc = "idle"
    /\ Ran_unrecorded(montgomery_form(nodes, outputs))

NextPass ==
    \/ AnyTreeShake
    \/ AnyPropagate
    \/ AnyValueNumbering
    \/ AnyConstants
    \/ AnyMontgomeryForm

SpecPass == InitPass /\ [][NextPass]_vars

---------------------------------------------------------------------------
(* SpecNumbering: value_numbering run on a well-formed graph, time after   *)
(* time.                                                                   *)

NumberingLeaves == {Input(0), Input(1), Constant(0), Constant(1)}

NumberingOps == {"Add", "Mul", "Eq", "Lt"}

InitNumbering ==
    InitGraph(Graphs(MaxNodes, NumberingLeaves, NumberingOps), MaxOutputs,
              {FALSE}, "idle", TRUE)

NextNumbering == PassValueNumbering

SpecNumbering == InitNumbering /\ [][NextNumbering]_vars

---------------------------------------------------------------------------
(* SpecShake: tree_shake run on a well-formed graph, time after time.      *)

ShakeLeaves == {Input(0), Constant(1)}

ShakeOps == {"Add"}

InitShake ==
    InitGraph(Graphs(MaxNodes + 1, ShakeLeaves, ShakeOps), MaxOutputs + 1,
              {FALSE}, "idle", TRUE)

NextShake == PassTreeShake

SpecShake == InitShake /\ [][NextShake]_vars

---------------------------------------------------------------------------
(* SpecPropagate: propagate run on a well-formed graph over the whole      *)
(* operation set, time after time, in both builds.                         *)

PropagateLeaves == {Input(0), Constant(1), Constant(M - 1)}

InitPropagate ==
    InitGraph(Graphs(MaxNodes, PropagateLeaves, Operation), 1, BOOLEAN, "idle",
              TRUE)

NextPropagate == PassPropagate

SpecPropagate == InitPropagate /\ [][NextPropagate]_vars

---------------------------------------------------------------------------
(* SpecOptimize: a caller that builds a graph, well-formed or not, and     *)
(* calls evaluate on it, or calls optimize and then evaluate on what       *)
(* optimize left. A panic ends the call that raised it.                    *)

OptimizeLeaves == {Input(0), Input(1), Input(2), Constant(1)}

OptimizeOps == {"Mul", "Eq", "Band", "MMul"}

OptimizeGraphs ==
    LET wf == Graphs(MaxNodes, OptimizeLeaves, OptimizeOps)
    IN  wf \cup UNION {Malformed(g) : g \in wf}

InitOptimize == InitGraph(OptimizeGraphs, MaxOutputs, {FALSE}, "start", TRUE)

\* Whether a random evaluation with values vals gave equal values only to
\* nodes that are equal under every input vector.
SoundNumbering(ns, vals) ==
    \A I \in InputVecs :
        LET e == EvalValues(ns, I)
        IN  e.ok => \A i, j \in Indices(ns) :
                        At(vals, i) = At(vals, j) => At(e.val, i) = At(e.val, j)

\* Whether two random evaluations agreed only on nodes that have that value
\* under every input vector.
SoundConstants(ns, va, vb) ==
    \A I \in InputVecs :
        LET e == EvalValues(ns, I)
        IN  e.ok => \A i \in Indices(ns) :
                        (At(ns, i).kind # "Constant" /\ At(va, i) = At(vb, i))
                            => At(e.val, i) = Fr_new(At(va, i))

OptTreeShake ==
    /\ pc = "start" /\ ~evaluated
    /\ Ran_pass("tree_shake", tree_shake(nodes, outputs), <<>>, "shaken", sound)

OptPropagate ==
    /\ pc = "shaken"
    /\ Ran_pass("propagate", propagate(nodes, outputs), <<>>, "propagated",
                sound)

OptValueNumbering ==
    /\ pc = "propagated"
    /\ \E d \in Draws(nodes) :
          LET vs == random_eval(nodes, d)
          IN  Ran_pass("value_numbering", value_numbering(nodes, outputs, d),
                       <<>>, "numbered",
                       sound /\ (vs.ok => SoundNumbering(nodes, vs.val)))

OptConstants ==
    /\ pc = "numbered"
    /\ \E da, db \in Draws(nodes) :
          LET va == random_eval(nodes, da)
              vb == random_eval(nodes, db)
          IN  Ran_pass("constants", constants(nodes, outputs, da, db), <<>>,
                       "promoted",
                       sound /\ ((va.ok /\ vb.ok) =>
                                    SoundConstants(nodes, va.val, vb.val)))

OptTreeShakeAgain ==
    /\ pc = "promoted"
    /\ Ran_pass("tree_shake", tree_shake(nodes, outputs), <<>>, "reshaken",
                sound)

OptMontgomeryForm ==
    /\ pc = "reshaken"
    /\ Ran_pass("montgomery_form", montgomery_form(nodes, outputs), <<>>,
                "done", sound)

Evaluate ==
    /\ pc \in {"start", "done", "aborted"} /\ ~evaluated
    /\ \E I \in InputVecs :
          /\ inputs' = I
          /\ result' = evaluate(nodes, I, outputs)
    /\ evaluated' = TRUE
    /\ UNCHANGED <<debug, nodes, outputs, pre_nodes, pre_outputs, orig_nodes,
                   orig_outputs, pc, last, values, sound, call_vars>>

NextOptimize ==
    \/ OptTreeShake
    \/ OptPropagate
    \/ OptValueNumbering
    \/ OptConstants
    \/ OptTreeShakeAgain
    \/ OptMontgomeryForm
    \/ Evaluate

SpecOptimize == InitOptimize /\ [][NextOptimize]_vars

---------------------------------------------------------------------------
(* What the claims speak of.                                               *)

\* The backward-reference invariant, and every output index in range.
WellFormed(ns, outs) ==
    /\ \A i \in Indices(ns) :
          At(ns, i).kind = "Op" => At(ns, i).a < i /\ At(ns, i).b < i
    /\ \A k \in 1 .. Len(outs) : outs[k] \in Indices(ns)

\* The indices reachable from the outputs through Op operands.
RECURSIVE Closure(_, _)
Closure(ns, S) ==
    LET T == S \cup UNION {{At(ns, i).a, At(ns, i).b} :
                             i \in {j \in S : At(ns, j).kind = "Op"}}
    IN  IF T = S THEN S ELSE Closure(ns, T)

Reachable(ns, outs) == Closure(ns, {outs[k] : k \in 1 .. Len(outs)})

\* The p-th (from 0) smallest element of S.
Nth(S, p) == CHOOSE x \in S : Cardinality({y \in S : y < x}) = p

Completed(name) == Latest = name /\ pc = "idle"

Twice(name) == last = <<name, name>> /\ pc = "idle"

Comparisons == {"Eq", "Neq", "Lt", "Gt", "Leq", "Geq"}

---------------------------------------------------------------------------
\* C2: every pass, run on a graph that satisfies the backward-reference
\* invariant with every output index in range, leaves such a graph behind;
\* so does every sequence of passes, the schedule of optimize among them.
C2_InvariantPreserved == WellFormed(nodes, outputs)

\* A graph only passes leave behind: folded or promoted constants in
\* Montgomery form, under an Op that still refers to them.
C2_Witness ==
    /\ pc = "idle"
    /\ \E i \in Indices(nodes) :
          /\ At(nodes, i).kind = "Op"
          /\ At(nodes, At(nodes, i).a).kind = "MontConstant"
          /\ At(nodes, At(nodes, i).a).a # Fr_new(1)
    /\ \E i \in Indices(nodes) : At(nodes, i).kind = "Constant"

---------------------------------------------------------------------------
\* C4: after tree_shake the nodes are exactly the nodes of the graph before
\* that are reachable from some output, in their order, every Op operand and
\* every output index rewritten to the new position of the node it referred
\* to; so every remaining node is reachable from some output.
C4_TreeShake ==
    Completed("tree_shake") =>
        LET live == Reachable(pre_nodes, pre_outputs)
            old(p) == Nth(live, p)
        IN  /\ Len(nodes) = Cardinality(live)
            /\ \A p \in Indices(nodes) :
                  IF At(pre_nodes, old(p)).kind = "Op"
                  THEN /\ At(nodes, p).kind = "Op"
                       /\ At(nodes, p).op = At(pre_nodes, old(p)).op
                       /\ At(nodes, p).a \in Indices(nodes)
                       /\ At(nodes, p).b \in Indices(nodes)
                       /\ old(At(nodes, p).a) = At(pre_nodes, old(p)).a
                       /\ old(At(nodes, p).b) = At(pre_nodes, old(p)).b
                  ELSE At(nodes, p) = At(pre_nodes, old(p))
            /\ Len(outputs) = Len(pre_outputs)
            /\ \A k \in 1 .. Len(outputs) :
                  /\ outputs[k] \in Indices(nodes)
                  /\ old(outputs[k]) = pre_outputs[k]
            /\ Reachable(nodes, outputs) = Indices(nodes)

\* tree_shake removed a node from the middle and renumbered an operand.
C4_Witness ==
    /\ Completed("tree_shake")
    /\ Len(nodes) < Len(pre_nodes)
    /\ \E p \in Indices(nodes) :
          /\ At(nodes, p).kind = "Op"
          /\ At(nodes, p) \notin {pre_nodes[q] : q \in 1 .. Len(pre_nodes)}

---------------------------------------------------------------------------
\* C5: tree_shake run twice in a row leaves, the second time, the nodes and
\* the outputs as the first run left them.
C5_TreeShakeIdempotent ==
    Twice("tree_shake") => nodes = pre_nodes /\ outputs = pre_outputs

\* The second of two runs, the first of which removed a node.
C5_Witness ==
    /\ Twice("tree_shake")
    /\ Len(nodes) < Len(orig_nodes)
    /\ outputs # orig_outputs

---------------------------------------------------------------------------
\* C6: propagate rewrites each Op(op, a, b) by these rules and changes
\* nothing else: when the nodes it finds at a and b (folded already, if they
\* were Ops) are Constant(x) and Constant(y) the node becomes
\* Constant(op.eval(x, y)), for Add Constant((x + y) mod M); otherwise, when
\* a = b, Eq, Leq and Geq become Constant(1) and Neq, Lt and Gt Constant(0);
\* every other node, the node count and the outputs are unchanged.
C6_PropagateRules ==
    Completed("propagate") =>
        /\ Len(nodes) = Len(pre_nodes)
        /\ outputs = pre_outputs
        /\ \A i \in Indices(nodes) :
              LET was == At(pre_nodes, i)
                  now == At(nodes, i)
              IN  IF was.kind # "Op" THEN now = was
                  ELSE IF /\ At(nodes, was.a).kind = "Constant"
                          /\ At(nodes, was.b).kind = "Constant"
                  THEN LET x == At(nodes, was.a).a
                           y == At(nodes, was.b).a
                       IN  /\ eval(was.op, x, y).ok
                           /\ now = Constant(eval(was.op, x, y).val)
                           /\ was.op = "Add" => now = Constant((x + y) % M)
                  ELSE IF was.a = was.b /\ was.op \in {"Eq", "Leq", "Geq"}
                  THEN now = Constant(1)
                  ELSE IF was.a = was.b /\ was.op \in {"Neq", "Lt", "Gt"}
                  THEN now = Constant(0)
                  ELSE now = was

\* propagate folded a comparison of an input with itself, and then an Op
\* whose operands it found to be constants.
C6_Witness ==
    /\ Completed("propagate")
    /\ \E i, j \in Indices(nodes) :
          /\ At(pre_nodes, i).kind = "Op" /\ At(nodes, i).kind = "Constant"
          /\ At(nodes, At(pre_nodes, i).a).kind = "Constant"
          /\ At(nodes, At(pre_nodes, i).b).kind = "Constant"
          /\ At(pre_nodes, j).kind = "Op" /\ At(nodes, j).kind = "Constant"
          /\ At(pre_nodes, At(pre_nodes, j).a).kind = "Input"

---------------------------------------------------------------------------
\* C9: value_numbering rewrites references only: with v the value vector of
\* its random evaluation, every Op operand and every output index x becomes
\* the lowest index j with v[j] = v[x]; the node count, each node's variant
\* and operator and the payloads of the other nodes are unchanged, and no
\* operand or output index is left referring to a node that has a
\* lower-indexed node of the same random value.
Lowest(v, j, x) ==
    /\ j \in Indices(v)
    /\ At(v, j) = At(v, x)
    /\ \A l \in 0 .. (j - 1) : At(v, l) # At(v, x)

C9_ValueNumbering ==
    Completed("value_numbering") =>
        /\ Len(values) = Len(pre_nodes)
        /\ Len(nodes) = Len(pre_nodes)
        /\ \A i \in Indices(nodes) :
              LET was == At(pre_nodes, i)
                  now == At(nodes, i)
              IN  IF was.kind # "Op" THEN now = was
                  ELSE /\ now.kind = "Op" /\ now.op = was.op
                       /\ Lowest(values, now.a, was.a)
                       /\ Lowest(values, now.b, was.b)
        /\ Len(outputs) = Len(pre_outputs)
        /\ \A k \in 1 .. Len(outputs) :
              Lowest(values, outputs[k], pre_outputs[k])

\* value_numbering moved an operand and an output to a lower index.
C9_Witness ==
    /\ Completed("value_numbering")
    /\ outputs # pre_outputs
    /\ \E i \in Indices(nodes) :
          At(nodes, i).kind = "Op" /\ At(nodes, i) # At(pre_nodes, i)

---------------------------------------------------------------------------
\* C10: one run of propagate reaches its fixpoint: when it completes, no Op
\* has two Constant operands and no Eq, Neq, Lt, Gt, Leq or Geq has equal
\* operand indices, and a second run changes no node.
C10_PropagateFixpoint ==
    /\ Completed("propagate") =>
          \A i \in Indices(nodes) :
              At(nodes, i).kind = "Op" =>
                  /\ ~(/\ At(nodes, At(nodes, i).a).kind = "Constant"
                       /\ At(nodes, At(nodes, i).b).kind = "Constant")
                  /\ ~(/\ At(nodes, i).op \in Comparisons
                       /\ At(nodes, i).a = At(nodes, i).b)
    /\ Twice("propagate") => nodes = pre_nodes

\* The second of two runs, the first of which folded a chain: an Op whose
\* operand was an Op.
C10_Witness ==
    /\ Twice("propagate")
    /\ \E i \in Indices(nodes) :
          /\ At(orig_nodes, i).kind = "Op"
          /\ At(orig_nodes, At(orig_nodes, i).a).kind = "Op"
          /\ At(nodes, i).kind = "Constant"

---------------------------------------------------------------------------
\* C1, as claimed: for every well-formed graph without MMul and
\* MontConstant, evaluate on what optimize left returns what evaluate
\* returns on the graph as built, whatever the random evaluations drew.
Plain(ns) ==
    \A i \in Indices(ns) :
        At(ns, i).kind # "MontConstant" /\ At(ns, i).op # "MMul"

AsBuilt == evaluate(orig_nodes, inputs, orig_outputs)

---------------------------------------------------------------------------
\* C7: violations fail fast. On a graph with a self or forward reference
\* evaluate returns nothing and optimize aborts with the nodes and outputs
\* as they were; evaluate returns nothing either when an Input index is
\* outside the input vector or when a node is an MMul; and propagate does
\* not complete on an MMul of two constants.
C7_FailFast ==
    /\ (/\ evaluated
        /\ \/ ~assert_valid(nodes)
           \/ \E i \in Indices(nodes) :
                 \/ At(nodes, i).kind = "Input" /\ At(nodes, i).a >= Len(inputs)
                 \/ At(nodes, i).kind = "Op" /\ At(nodes, i).op = "MMul")
       => (~result.ok /\ result.val = <<>>)
    /\ (~assert_valid(orig_nodes) /\ pc # "start") =>
          (pc = "aborted" /\ nodes = orig_nodes /\ outputs = orig_outputs)
    /\ pc = "propagated" =>
          \A i \in Indices(nodes) :
              ~(/\ At(pre_nodes, i).kind = "Op"
                /\ At(pre_nodes, i).op = "MMul"
                /\ At(nodes, At(pre_nodes, i).a).kind = "Constant"
                /\ At(nodes, At(pre_nodes, i).b).kind = "Constant")

\* optimize aborted on a graph with a forward reference, leaving it as it
\* was, and evaluate on that graph returned nothing.
C7_Witness ==
    /\ pc = "aborted" /\ evaluated
    /\ \E i \in Indices(orig_nodes) :
          At(orig_nodes, i).kind = "Op" /\ At(orig_nodes, i).a > i
    /\ nodes = orig_nodes /\ outputs = orig_outputs
    /\ ~result.ok

===========================================================================
